---- MODULE Spec2Model ----
(***************************************************************************)
(* Model of the two command-line scripts of RedShift_Desktop/scripts:      *)
(*   get-device-name.py     the device identity query                      *)
(*   list-device-files.py   the app music file lister                      *)
(* One run of one script is one behaviour.  Every call into the            *)
(* pymobiledevice3 library is a step whose outcome (a returned value or a  *)
(* raised exception) is chosen nondeterministically.  stdout is the        *)
(* sequence of lines printed, each line held as the JSON value that        *)
(* json.dumps serialised.                                                  *)
(***************************************************************************)
EXTENDS Integers, Sequences, FiniteSets, TLC

VARIABLES tool, pc, stdout, exit, uncaught, calls,
          device_name, device_model, items, idx, files, stats

vars == <<tool, pc, stdout, exit, uncaught, calls,
          device_name, device_model, items, idx, files, stats>>

(***************************************************************************)
(* Bounds                                                                  *)
(***************************************************************************)
\* longest directory listing returned by listdir
MaxItems == 2

(***************************************************************************)
(* Python values                                                           *)
(***************************************************************************)
PyNone == [t |-> "None"]
PyTrue == [t |-> "bool"]
PyStr(s) == [t |-> "str", v |-> s]
PyInt(n) == [t |-> "int", v |-> n]
PyList(s) == [t |-> "list", v |-> s]
PyDict(d) == [t |-> "dict", v |-> d]

\* truth value of an object, as `or` tests it: None and '' are false
Truthy(x) ==
    CASE x.t = "None" -> FALSE
      [] x.t = "str" -> x.v # ""
      [] OTHER -> TRUE

\* a or b
PyOr(a, b) == IF Truthy(a) THEN a ELSE b

(***************************************************************************)
(* JSON values, and json.dumps                                             *)
(***************************************************************************)
JNull == [j |-> "null"]
JTrue == [j |-> "true"]
JStr(s) == [j |-> "string", v |-> s]
JNum(n) == [j |-> "number", v |-> n]
JArr(s) == [j |-> "array", a |-> s]
JObj(o) == [j |-> "object", o |-> o]

RECURSIVE json_dumps(_)
json_dumps(x) ==
    CASE x.t = "None" -> JNull
      [] x.t = "bool" -> JTrue
      [] x.t = "str" -> JStr(x.v)
      [] x.t = "int" -> JNum(x.v)
      [] x.t = "list" -> JArr([i \in DOMAIN x.v |-> json_dumps(x.v[i])])
      [] x.t = "dict" -> JObj([k \in DOMAIN x.v |-> json_dumps(x.v[k])])

(***************************************************************************)
(* Outcomes of a library step                                              *)
(***************************************************************************)
\* exception classes a step can raise; all are subclasses of Exception
ExcKinds == {"ImportError", "OSError"}
\* str(e): some library exceptions are raised without arguments
ExcTexts == {"", "device error"}

Returned(v) == [raised |-> FALSE, kind |-> "", msg |-> "", ret |-> v]
Raised(k, m) == [raised |-> TRUE, kind |-> k, msg |-> m, ret |-> PyNone]
Raises == {Raised(k, m) : k \in ExcKinds, m \in ExcTexts}

\* values a lockdown property can hold: absent, empty, or a string
PropValues == {PyNone, PyStr(""), PyStr("MyPhone")}

Logged(op, out) == Append(calls, [op |-> op, out |-> out])

(***************************************************************************)
(* get-device-name.py                                                      *)
(***************************************************************************)
\* except ImportError:
ImportGuardCatches(e) == e.kind = "ImportError"

NoLibraryRecord_withMessage ==
    PyDict([error |-> PyStr("NO_PYMOBILEDEVICE3"), message |-> PyStr("")])

NoLibraryRecord == PyDict([error |-> PyStr("NO_PYMOBILEDEVICE3")])

NoDeviceRecord_noMessage(e) == PyDict([error |-> PyStr("NO_DEVICE")])

NoDeviceRecord(e) ==
    PyDict([error |-> PyStr("NO_DEVICE"), message |-> PyStr(e.msg)])

SuccessRecord(name, model) ==
    PyDict([name |-> name, model |-> model, success |-> PyTrue])

ModelOf_noDefault(v) == v

\* lockdown.get_value(key='ProductType') or 'iOS Device'
ModelOf(v) == PyOr(v, PyStr("iOS Device"))

\* an exception that no handler catches ends the process with a traceback
\* on stderr, nothing on stdout, and exit status 1
Crash ==
    /\ uncaught' = TRUE
    /\ exit' = <<1>>
    /\ pc' = "done"
    /\ UNCHANGED stdout

\* print(json.dumps(rec)); sys.exit(code)
PrintAndExit(rec, code) ==
    /\ stdout' = Append(stdout, json_dumps(rec))
    /\ exit' = <<code>>
    /\ pc' = "done"
    /\ UNCHANGED uncaught

\* except Exception as e: of get_device_name
NoDeviceHandler(e) == PrintAndExit(NoDeviceRecord(e), 1)

NameImport ==
    /\ tool = "get-device-name" /\ pc = "import"
    /\ \E out \in {Returned(PyNone)} \cup Raises :
         /\ calls' = Logged("import", out)
         /\ IF ~out.raised
              THEN pc' = "connect" /\ UNCHANGED <<stdout, exit, uncaught>>
              ELSE IF ImportGuardCatches(out)
                     THEN PrintAndExit(NoLibraryRecord, 1)
                     ELSE Crash
    /\ UNCHANGED <<tool, device_name, device_model, items, idx, files, stats>>

NameConnect ==
    /\ tool = "get-device-name" /\ pc = "connect"
    /\ \E out \in {Returned(PyNone)} \cup Raises :
         /\ calls' = Logged("create_using_usbmux", out)
         /\ IF out.raised
              THEN NoDeviceHandler(out)
              ELSE pc' = "display_name" /\ UNCHANGED <<stdout, exit, uncaught>>
    /\ UNCHANGED <<tool, device_name, device_model, items, idx, files, stats>>

\* lockdown.display_name, the left operand of `or`
NameDisplayName ==
    /\ tool = "get-device-name" /\ pc = "display_name"
    /\ \E out \in {Returned(v) : v \in PropValues} \cup Raises :
         /\ calls' = Logged("display_name", out)
         /\ IF out.raised
              THEN NoDeviceHandler(out) /\ UNCHANGED device_name
              ELSE /\ UNCHANGED <<stdout, exit, uncaught>>
                   /\ IF Truthy(out.ret)
                        THEN device_name' = out.ret /\ pc' = "ProductType"
                        ELSE UNCHANGED device_name /\ pc' = "DeviceName"
    /\ UNCHANGED <<tool, device_model, items, idx, files, stats>>

\* lockdown.get_value(key='DeviceName'), the right operand of `or`
NameDeviceName ==
    /\ tool = "get-device-name" /\ pc = "DeviceName"
    /\ \E out \in {Returned(v) : v \in PropValues} \cup Raises :
         /\ calls' = Logged("get_value DeviceName", out)
         /\ IF out.raised
              THEN NoDeviceHandler(out) /\ UNCHANGED device_name
              ELSE /\ UNCHANGED <<stdout, exit, uncaught>>
                   /\ device_name' = out.ret
                   /\ pc' = "ProductType"
    /\ UNCHANGED <<tool, device_model, items, idx, files, stats>>

NameProductType ==
    /\ tool = "get-device-name" /\ pc = "ProductType"
    /\ \E out \in {Returned(v) : v \in PropValues} \cup Raises :
         /\ calls' = Logged("get_value ProductType", out)
         /\ IF out.raised
              THEN NoDeviceHandler(out) /\ UNCHANGED device_model
              ELSE /\ UNCHANGED <<stdout, exit, uncaught>>
                   /\ device_model' = ModelOf(out.ret)
                   /\ pc' = "print"
    /\ UNCHANGED <<tool, device_name, items, idx, files, stats>>

NamePrint ==
    /\ tool = "get-device-name" /\ pc = "print"
    /\ PrintAndExit(SuccessRecord(device_name, device_model), 0)
    /\ UNCHANGED <<tool, calls, device_name, device_model,
                   items, idx, files, stats>>

(***************************************************************************)
(* list-device-files.py                                                    *)
(***************************************************************************)
\* strings that are inspected character by character (entry names and
\* paths) are sequences of one-character strings
remote_path == <<"D", "o", "c", "u", "m", "e", "n", "t", "s", "/",
                 "M", "u", "s", "i", "c">>

\* entry names a directory listing can hold
Names == {<<".", "a">>, <<"a">>, <<"b">>, <<"a", ".">>}

\* file types st_ifmt can report
FileTypes == {"S_IFREG", "S_IFDIR", "S_IFLNK"}

\* dictionaries stat can return: the usual one, and ones lacking a field
StatInfos ==
    {[st_ifmt |-> PyStr("S_IFREG"), st_size |-> PyInt(n)] : n \in {0, 1000}}
    \cup {[st_ifmt |-> PyStr(f), st_size |-> PyInt(1000)] : f \in FileTypes}
    \cup {[st_ifmt |-> PyStr("S_IFREG")], [st_size |-> PyInt(1000)]}

StatOutcomes ==
    {Returned(PyDict(d)) : d \in StatInfos} \cup {Raised("OSError", "device error")}

\* the stats entry of an item stat was not called for
NotCalled == Returned(PyNone)

\* the listings of a directory: sequences of distinct names, at most n long
Listings(S, n) ==
    {l \in UNION {[1..k -> S] : k \in 0..n} :
        \A i, k \in DOMAIN l : i # k => l[i] # l[k]}

\* except ImportError as e:
ListImportGuardCatches(e) == e.kind = "ImportError"

startswith_dot_atEnd(item) == Len(item) >= 1 /\ item[Len(item)] = "."

\* item.startswith('.')
startswith_dot(item) == Len(item) >= 1 /\ item[1] = "."

os_path_join_concat(a, b) == a \o b

\* os.path.join(a, b) of posixpath
os_path_join(a, b) ==
    IF Len(b) >= 1 /\ b[1] = "/" THEN b
    ELSE IF Len(a) = 0 \/ a[Len(a)] = "/" THEN a \o b
    ELSE a \o <<"/">> \o b

IsRegularFile_notDir(info) == info["st_ifmt"] # PyStr("S_IFDIR")

\* info['st_ifmt'] == 'S_IFREG'
IsRegularFile(info) == info["st_ifmt"] = PyStr("S_IFREG")

FileRecord(item, info, file_path) ==
    PyDict([name |-> PyStr(item), size |-> info["st_size"],
            path |-> PyStr(file_path)])

AppNotInstalledRecord_asNoDevice(e) ==
    PyDict([error |-> PyStr("NO_DEVICE"), message |-> PyStr(e.msg)])

AppNotInstalledRecord(e) ==
    PyDict([error |-> PyStr("APP_NOT_INSTALLED"), message |-> PyStr(e.msg)])

\* the body of `try: info = house_arrest.stat(file_path) ... except: pass`:
\* the value of files after it, a missing key raising KeyError
AfterStat(fs, item, file_path, out) ==
    IF out.raised THEN fs
    ELSE IF "st_ifmt" \notin DOMAIN out.ret.v THEN fs
    ELSE IF ~IsRegularFile(out.ret.v) THEN fs
    ELSE IF "st_size" \notin DOMAIN out.ret.v THEN fs
    ELSE Append(fs, FileRecord(item, out.ret.v, file_path))

\* outer `except Exception as e:` of list_app_files
EmptyListHandler == PrintAndExit(PyList(<<>>), 0)

ListImport ==
    /\ tool = "list-device-files" /\ pc = "import"
    /\ \E out \in {Returned(PyNone)} \cup Raises :
         /\ calls' = Logged("import", out)
         /\ IF ~out.raised
              THEN pc' = "connect" /\ UNCHANGED <<stdout, exit, uncaught>>
              ELSE IF ListImportGuardCatches(out)
                     THEN PrintAndExit(PyList(<<>>), 0)
                     ELSE Crash
    /\ UNCHANGED <<tool, device_name, device_model, items, idx, files, stats>>

ListConnect ==
    /\ tool = "list-device-files" /\ pc = "connect"
    /\ \E out \in {Returned(PyNone)} \cup Raises :
         /\ calls' = Logged("create_using_usbmux", out)
         /\ IF out.raised
              THEN EmptyListHandler
              ELSE pc' = "afc" /\ UNCHANGED <<stdout, exit, uncaught>>
    /\ UNCHANGED <<tool, device_name, device_model, items, idx, files, stats>>

ListAfc ==
    /\ tool = "list-device-files" /\ pc = "afc"
    /\ \E out \in {Returned(PyNone)} \cup Raises :
         /\ calls' = Logged("AfcService", out)
         /\ IF out.raised
              THEN EmptyListHandler
              ELSE pc' = "house_arrest" /\ UNCHANGED <<stdout, exit, uncaught>>
    /\ UNCHANGED <<tool, device_name, device_model, items, idx, files, stats>>

\* the inner try: the import of HouseArrestService and its construction
ListHouseArrest ==
    /\ tool = "list-device-files" /\ pc = "house_arrest"
    /\ \E out \in {Returned(PyNone)} \cup Raises :
         /\ calls' = Logged("HouseArrestService", out)
         /\ IF out.raised
              THEN PrintAndExit(AppNotInstalledRecord(out), 1)
              ELSE pc' = "listdir" /\ UNCHANGED <<stdout, exit, uncaught>>
    /\ UNCHANGED <<tool, device_name, device_model, items, idx, files, stats>>

ListListdir ==
    /\ tool = "list-device-files" /\ pc = "listdir"
    /\ \E out \in {Returned(PyList(l)) : l \in Listings(Names, MaxItems)}
                    \cup Raises :
         /\ calls' = Logged("listdir", out)
         /\ IF out.raised
              THEN items' = <<>> /\ pc' = "print"
              ELSE /\ items' = out.ret.v
                   /\ pc' = IF Len(out.ret.v) = 0 THEN "print" ELSE "loop"
    /\ UNCHANGED <<tool, stdout, exit, uncaught, device_name, device_model,
                   idx, files, stats>>

\* one iteration of `for item in items:`
ListLoop ==
    /\ tool = "list-device-files" /\ pc = "loop"
    /\ idx <= Len(items)
    /\ LET item == items[idx]
           file_path == os_path_join(remote_path, item)
       IN  IF startswith_dot(item)
             THEN /\ stats' = Append(stats, NotCalled)
                  /\ UNCHANGED <<files, calls>>
             ELSE \E out \in StatOutcomes :
                    /\ calls' = Logged("stat", out)
                    /\ stats' = Append(stats, out)
                    /\ files' = AfterStat(files, item, file_path, out)
    /\ idx' = idx + 1
    /\ pc' = IF idx + 1 > Len(items) THEN "print" ELSE "loop"
    /\ UNCHANGED <<tool, stdout, exit, uncaught, device_name, device_model,
                   items>>

\* print(json.dumps(files)); return 0
ListPrint ==
    /\ tool = "list-device-files" /\ pc = "print"
    /\ PrintAndExit(PyList(files), 0)
    /\ UNCHANGED <<tool, calls, device_name, device_model,
                   items, idx, files, stats>>

Init ==
    /\ tool \in {"get-device-name", "list-device-files"}
    /\ pc = "import"
    /\ stdout = <<>>
    /\ exit = <<>>
    /\ uncaught = FALSE
    /\ calls = <<>>
    /\ device_name = PyNone
    /\ device_model = PyNone
    /\ items = <<>>
    /\ idx = 1
    /\ files = <<>>
    /\ stats = <<>>

Next ==
    \/ NameImport
    \/ NameConnect
    \/ NameDisplayName
    \/ NameDeviceName
    \/ NameProductType
    \/ NamePrint
    \/ ListImport
    \/ ListConnect
    \/ ListAfc
    \/ ListHouseArrest
    \/ ListListdir
    \/ ListLoop
    \/ ListPrint

Spec == Init /\ [][Next]_vars

(***************************************************************************)
(* Vocabulary of the properties                                            *)
(***************************************************************************)
Done == pc = "done"
NameTool == tool = "get-device-name"
ListTool == tool = "list-device-files"

\* the i-th library step was made and raised / returned
CallRaised(i) == i \in DOMAIN calls /\ calls[i].out.raised
LastCall == calls[Len(calls)]

\* the import step failed with ImportError: the library is not importable
ImportFailed == CallRaised(1) /\ calls[1].out.kind = "ImportError"

\* a library call made inside get_device_name / list_app_files raised
CallAfterImportRaised == \E i \in DOMAIN calls : i > 1 /\ calls[i].out.raised

OneLine == Len(stdout) = 1
PrintedObject == OneLine /\ stdout[1].j = "object"
PrintedArray == OneLine /\ stdout[1].j = "array"
PrintedError(code) ==
    /\ PrintedObject
    /\ "error" \in DOMAIN stdout[1].o
    /\ stdout[1].o.error = JStr(code)
PrintedSuccess == PrintedObject /\ "success" \in DOMAIN stdout[1].o

\* C1: in both tools, whatever the library steps return or raise, the
\* process ends having printed exactly one JSON line and not through an
\* uncaught exception
C1_OneJsonLineNoCrash == Done => (OneLine /\ ~uncaught)

\* C2 as stated: identity query, a call of get_device_name raised: the
\* output is {error: NO_DEVICE, message: non-empty string}, exit code 1
C2_NoDeviceNonEmptyMessage ==
    (NameTool /\ Done /\ CallAfterImportRaised) =>
        /\ PrintedError("NO_DEVICE")
        /\ DOMAIN stdout[1].o = {"error", "message"}
        /\ stdout[1].o.message.j = "string"
        /\ stdout[1].o.message.v # ""
        /\ exit = <<1>>

\* C2 amended: identity query, a call of get_device_name raised: the output
\* is {error: NO_DEVICE, message: the text of the exception, which may be
\* empty}, exit code 1
C2_NoDeviceMessageIsExceptionText ==
    (NameTool /\ Done /\ CallAfterImportRaised) =>
        /\ PrintedError("NO_DEVICE")
        /\ DOMAIN stdout[1].o = {"error", "message"}
        /\ stdout[1].o.message = JStr(LastCall.out.msg)
        /\ exit = <<1>>

\* a property read after a good connection raised an exception without text
C2_Witness ==
    /\ NameTool /\ Done /\ Len(calls) = 4
    /\ LastCall.op = "get_value ProductType"
    /\ LastCall.out.raised /\ LastCall.out.msg = ""
    /\ stdout = <<JObj([error |-> JStr("NO_DEVICE"), message |-> JStr("")])>>
    /\ exit = <<1>>

HouseArrestFailed ==
    /\ Len(calls) = 4
    /\ LastCall.op = "HouseArrestService"
    /\ LastCall.out.raised

\* C3 as stated: file lister, house arrest cannot be opened after a good
\* connection: the output is {error: APP_NOT_INSTALLED, message: non-empty
\* string}, exit code 1, and no array is printed
C3_AppNotInstalledNonEmptyMessage ==
    (ListTool /\ Done /\ HouseArrestFailed) =>
        /\ PrintedError("APP_NOT_INSTALLED")
        /\ DOMAIN stdout[1].o = {"error", "message"}
        /\ stdout[1].o.message.j = "string"
        /\ stdout[1].o.message.v # ""
        /\ exit = <<1>>

\* C3 amended: file lister, house arrest cannot be opened after a good
\* connection: the only line printed is {error: APP_NOT_INSTALLED, message:
\* the text of the exception, which may be empty}, exit code 1
C3_AppNotInstalledMessageIsExceptionText ==
    (ListTool /\ Done /\ HouseArrestFailed) =>
        /\ PrintedError("APP_NOT_INSTALLED")
        /\ DOMAIN stdout[1].o = {"error", "message"}
        /\ stdout[1].o.message = JStr(LastCall.out.msg)
        /\ exit = <<1>>

C3_Witness ==
    /\ ListTool /\ Done /\ HouseArrestFailed
    /\ ~CallRaised(2) /\ ~CallRaised(3)
    /\ LastCall.out.msg = "device error"
    /\ stdout = <<JObj([error |-> JStr("APP_NOT_INSTALLED"),
                        message |-> JStr("device error")])>>

\* C4: the file lister exits with code 1 exactly when it printed the
\* APP_NOT_INSTALLED record; in every other case it prints one JSON array
\* and exits with code 0; with the library absent the array is empty
C4_ListerExitCodes ==
    (ListTool /\ Done) =>
        /\ exit = <<1>> <=> PrintedError("APP_NOT_INSTALLED")
        /\ ~PrintedError("APP_NOT_INSTALLED") => (PrintedArray /\ exit = <<0>>)
        /\ ImportFailed => stdout = <<JArr(<<>>)>>

ListdirReturned ==
    \E i \in DOMAIN calls : calls[i].op = "listdir" /\ ~calls[i].out.raised

\* the stat of the i-th entry reports a regular file: the call returned and
\* its result has type S_IFREG and a size
ReportsRegularFile(i) ==
    /\ ~stats[i].raised
    /\ stats[i].ret.t = "dict"
    /\ {"st_ifmt", "st_size"} \subseteq DOMAIN stats[i].ret.v
    /\ stats[i].ret.v.st_ifmt.v = "S_IFREG"

NameIsHidden(i) == items[i][1] = "."

ExpectedRecord(i) ==
    JObj([name |-> JStr(items[i]),
          size |-> JNum(stats[i].ret.v.st_size.v),
          path |-> JStr(remote_path \o <<"/">> \o items[i])])

RECURSIVE ExpectedFiles(_)
ExpectedFiles(n) ==
    IF n = 0 THEN <<>>
    ELSE IF ~NameIsHidden(n) /\ ReportsRegularFile(n)
           THEN Append(ExpectedFiles(n - 1), ExpectedRecord(n))
           ELSE ExpectedFiles(n - 1)

\* C6: file lister, listdir returned: the printed array is, in listing
\* order, the entries whose name does not start with '.' and whose stat
\* succeeds and reports a regular file, each as {name, size: st_size,
\* path: directory/name}; a failing stat drops that entry alone
C6_PrintedArrayIsFilteredListing ==
    (ListTool /\ Done /\ ListdirReturned) =>
        /\ Len(stats) = Len(items)
        /\ stdout = <<JArr(ExpectedFiles(Len(items)))>>
        /\ exit = <<0>>

\* the stat of the first entry raised and the second entry is printed
C6_Witness ==
    /\ ListTool /\ Done /\ ListdirReturned
    /\ Len(items) = 2
    /\ stats[1].raised
    /\ stdout = <<JArr(<<JObj([name |-> JStr(<<"b">>), size |-> JNum(0),
          path |-> JStr(<<"D", "o", "c", "u", "m", "e", "n", "t", "s", "/",
                          "M", "u", "s", "i", "c", "/", "b">>)])>>)>>

\* the names of the records of the printed array
PrintedNames ==
    IF PrintedArray
      THEN {stdout[1].a[k].o.name.v : k \in DOMAIN stdout[1].a}
      ELSE {}

\* C7: file lister: a listed entry whose name starts with '.' is in no
\* record of the output
C7_HiddenNeverPrinted ==
    ListTool => \A i \in DOMAIN items :
                    NameIsHidden(i) => items[i] \notin PrintedNames

\* a hidden entry was listed next to a regular file that is printed
C7_Witness ==
    /\ ListTool /\ Done
    /\ items = << <<".", "a">>, <<"a">> >>
    /\ PrintedNames = {<<"a">>}

\* C8: file lister: a listed entry whose stat does not report a regular
\* file (another type, or a result lacking the type or the size) is in no
\* record of the output
C8_NonRegularNeverPrinted ==
    (ListTool /\ Done) =>
        \A i \in DOMAIN items :
            (~NameIsHidden(i) /\ ~stats[i].raised /\ ~ReportsRegularFile(i))
                => items[i] \notin PrintedNames

\* a symbolic link and a regular file were listed; only the file is printed
C8_Witness ==
    /\ ListTool /\ Done
    /\ Len(items) = 2
    /\ ~stats[1].raised /\ stats[1].ret.t = "dict"
    /\ "st_ifmt" \in DOMAIN stats[1].ret.v
    /\ stats[1].ret.v.st_ifmt.v = "S_IFLNK"
    /\ PrintedNames = {items[2]}

NoCallRaised == \A i \in DOMAIN calls : ~calls[i].out.raised

\* C9: identity query: the model of a success record is a non-empty string,
\* the placeholder 'iOS Device' when ProductType is absent or empty and the
\* ProductType value otherwise; a success record comes with exit code 0 and
\* only when the connection and the property reads did not raise
C9_SuccessModel ==
    (NameTool /\ PrintedSuccess) =>
        /\ stdout[1].o.model.j = "string"
        /\ stdout[1].o.model.v # ""
        /\ LastCall.op = "get_value ProductType"
        /\ IF LastCall.out.ret \in {PyNone, PyStr("")}
             THEN stdout[1].o.model = JStr("iOS Device")
             ELSE stdout[1].o.model = JStr(LastCall.out.ret.v)
        /\ exit = <<0>>
        /\ NoCallRaised
        /\ \E i \in DOMAIN calls : calls[i].op = "create_using_usbmux"
        /\ \E i \in DOMAIN calls : calls[i].op = "display_name"

\* the device has a name and no ProductType
C9_Witness ==
    /\ NameTool /\ Done
    /\ LastCall.op = "get_value ProductType" /\ LastCall.out.ret = PyNone
    /\ stdout = <<JObj([name |-> JStr("MyPhone"), model |-> JStr("iOS Device"),
                        success |-> JTrue])>>
    /\ exit = <<0>>

DisplayNameRead == calls[3].out.ret
DeviceNameWasRead == \E i \in DOMAIN calls : calls[i].op = "get_value DeviceName"

\* C10: identity query: the name of a success record is a string: the
\* display name when that is present and non-empty, otherwise the value of
\* DeviceName, which is read only when the display name is absent or empty
C10_SuccessNameIsString ==
    (NameTool /\ PrintedSuccess) =>
        /\ stdout[1].o.name.j = "string"
        /\ IF DisplayNameRead \in {PyNone, PyStr("")}
             THEN DeviceNameWasRead /\ stdout[1].o.name = JStr(calls[4].out.ret.v)
             ELSE ~DeviceNameWasRead /\ stdout[1].o.name = JStr(DisplayNameRead.v)
====
